---- MODULE Spec2Model ----
(***************************************************************************)
(* State-machine model of the stock signal programs:                       *)
(*   streamlit_app.py  watchlist / rule store, analyze_stock, the UI run   *)
(*   stock_agent.py    check_stock and the e-mail batch loop               *)
(*   stock_agents.py   check_stock with the fixed BUY / SELL rules         *)
(* Text is a sequence of one-character strings, so that upper(), strip(),  *)
(* sorted(), "\n".join and line iteration are computed, not assumed.       *)
(***************************************************************************)
EXTENDS Integers, Sequences, FiniteSets, TLC

VARIABLES
    files,              \* the file system: path -> content, or Absent
    selected_watchlist, \* the sidebar selectbox of the session
    symbols,            \* the list the sidebar loaded in the last script run
    event,              \* the widget event the last script run handled
    batch,              \* the tickers the last Analyze Watchlist loop iterated
    analyzed_data,      \* st.session_state["analyzed_data"]
    call,               \* the last direct call of a store / analysis function
    ret,                \* what that call returned
    tickers,            \* stock_agent.py: the lines of stocks.txt
    idx,                \* stock_agent.py: position of the batch loop
    pc,                 \* stock_agent.py: control state of the script
    results,            \* stock_agent.py: results
    messages_to_send,   \* stock_agent.py: messages_to_send
    wr,                 \* an open(path, "w") in progress in another session
    rd                  \* what a load running beside that write observed

vars == <<files, selected_watchlist, symbols, event, batch, analyzed_data,
          call, ret, tickers, idx, pc, results, messages_to_send, wr, rd>>

-----------------------------------------------------------------------------
(* Text: characters, in code point order *)

Ascii == <<"\n", " ", "-", ".", "A", "B", "F", "G", "L", "M", "O", "P", "S", "T",
           "a", "b", "l", "p">>

Ord(c) == CHOOSE i \in 1..Len(Ascii) : Ascii[i] = c

CharUpper(c) ==
    CASE c = "a" -> "A"
      [] c = "b" -> "B"
      [] c = "l" -> "L"
      [] c = "p" -> "P"
      [] OTHER -> c

\* str.upper()
Upper(s) == [i \in 1..Len(s) |-> CharUpper(s[i])]

IsSpace(c) == c \in {" ", "\n"}

RECURSIVE LStrip(_)
LStrip(s) == IF s # <<>> /\ IsSpace(Head(s)) THEN LStrip(Tail(s)) ELSE s

RECURSIVE RStrip(_)
RStrip(s) ==
    IF s # <<>> /\ IsSpace(s[Len(s)]) THEN RStrip(SubSeq(s, 1, Len(s) - 1)) ELSE s

\* str.strip()
Strip(s) == RStrip(LStrip(s))

\* str.replace("-", ".")
ReplaceDash(s) == [i \in 1..Len(s) |-> IF s[i] = "-" THEN "." ELSE s[i]]

\* s < t for str: code point order, a proper prefix first
RECURSIVE StrLess(_, _)
StrLess(s, t) ==
    IF t = <<>> THEN FALSE
    ELSE IF s = <<>> THEN TRUE
    ELSE IF Head(s) # Head(t) THEN Ord(Head(s)) < Ord(Head(t))
    ELSE StrLess(Tail(s), Tail(t))

\* set(list)
ToSet(l) == {l[i] : i \in 1..Len(l)}

\* sorted(S) for a set of str
RECURSIVE Sorted(_)
Sorted(S) ==
    IF S = {} THEN <<>>
    ELSE LET m == CHOOSE x \in S : \A y \in S \ {x} : StrLess(x, y)
         IN <<m>> \o Sorted(S \ {m})

\* "\n".join(list)
RECURSIVE Join(_)
Join(l) ==
    IF l = <<>> THEN <<>>
    ELSE IF Len(l) = 1 THEN l[1]
    ELSE l[1] \o <<"\n">> \o Join(Tail(l))

\* iterating a text file: the lines, each with its "\n" when it has one
RECURSIVE Lines(_, _)
Lines(text, cur) ==
    IF text = <<>> THEN (IF cur = <<>> THEN <<>> ELSE <<cur>>)
    ELSE IF Head(text) = "\n" THEN <<cur \o <<"\n">> >> \o Lines(Tail(text), <<>>)
    ELSE Lines(Tail(text), cur \o <<Head(text)>>)

\* list.remove(x): the first occurrence goes
RECURSIVE ListRemove(_, _)
ListRemove(l, x) ==
    IF l = <<>> THEN <<>>
    ELSE IF Head(l) = x THEN Tail(l)
    ELSE <<Head(l)>> \o ListRemove(Tail(l), x)

-----------------------------------------------------------------------------
(* CONFIG *)

\* a path with no file; File(d) is a file holding d
Absent == [exists |-> FALSE, data |-> <<>>]

File(d) == [exists |-> TRUE, data |-> d]

WATCHLIST_DIR == "watchlists"

DEFAULT_LISTS == <<"wl_default.txt", "wl_edgar.txt", "wl_tiago.txt">>

\* name.replace(".txt", "")
RemoveTxt(name) ==
    CASE name = "wl_default.txt" -> "wl_default"
      [] name = "wl_edgar.txt" -> "wl_edgar"
      [] name = "wl_tiago.txt" -> "wl_tiago"
      [] OTHER -> name

WATCHLIST_CHOICES == [i \in 1..Len(DEFAULT_LISTS) |-> RemoveTxt(DEFAULT_LISTS[i])]

RULES_FILE == "rules.json"

\* os.path.join(WATCHLIST_DIR, filename)
PathJoin(dir, filename) == dir \o "/" \o filename

SeedText == <<"A", "A", "P", "L", "\n", "M", "S", "F", "T", "\n",
              "G", "O", "O", "G", "L", "\n">>

\* the paths the program can name
Paths ==
    {PathJoin(WATCHLIST_DIR, DEFAULT_LISTS[i]) : i \in 1..Len(DEFAULT_LISTS)}
    \cup {PathJoin(WATCHLIST_DIR, WATCHLIST_CHOICES[i]) : i \in 1..Len(WATCHLIST_CHOICES)}
    \cup {RULES_FILE}

\* lines 19-23: every list of DEFAULT_LISTS that has no file gets the seed
SeedDefaults(fs) ==
    [p \in DOMAIN fs |->
        IF /\ \E i \in 1..Len(DEFAULT_LISTS) : p = PathJoin(WATCHLIST_DIR, DEFAULT_LISTS[i])
           /\ ~fs[p].exists
        THEN File(SeedText) ELSE fs[p]]

-----------------------------------------------------------------------------
(* WATCHLISTS *)

\* [line.strip().upper() for line in f if line.strip()]
RECURSIVE ReadLines(_)
ReadLines(ls) ==
    IF ls = <<>> THEN <<>>
    ELSE IF Strip(Head(ls)) # <<>>
         THEN <<Upper(Strip(Head(ls)))>> \o ReadLines(Tail(ls))
         ELSE ReadLines(Tail(ls))

load_watchlist(fs, filename) ==
    LET path == PathJoin(WATCHLIST_DIR, filename) IN
    IF ~fs[path].exists THEN <<>> ELSE ReadLines(Lines(fs[path].data, <<>>))

save_watchlist(fs, filename, tks) ==
    LET path == PathJoin(WATCHLIST_DIR, filename) IN
    [fs EXCEPT ![path] = File(Join(Sorted(ToSet(tks))))]

-----------------------------------------------------------------------------
(* RULES *)

\* json.dump(rules, f, indent=2): the tokens of the object, in order
JsonDump(rules) == <<"{", "BUY:", rules.BUY, ",", "SELL:", rules.SELL, "}">>

JsonWellFormed(d) ==
    /\ Len(d) = 7
    /\ d[1] = "{" /\ d[2] = "BUY:" /\ d[4] = "," /\ d[5] = "SELL:" /\ d[7] = "}"

\* json.load(f) of a well-formed file
JsonLoad(d) == [BUY |-> d[3], SELL |-> d[6]]

default_rules ==
    [BUY |-> "RSI < 30 and Price > MA50 and MACD > MACD_Signal",
     SELL |-> "RSI > 70 and Price < MA50 and MACD < MACD_Signal"]

save_rules(fs, rules) == [fs EXCEPT ![RULES_FILE] = File(JsonDump(rules))]

\* returns the rules, the file system afterwards, and the exception that escapes
load_rules(fs) ==
    IF ~fs[RULES_FILE].exists
    THEN [rules |-> default_rules, fs |-> save_rules(fs, default_rules), exc |-> ""]
    ELSE IF JsonWellFormed(fs[RULES_FILE].data)
    THEN [rules |-> JsonLoad(fs[RULES_FILE].data), fs |-> fs, exc |-> ""]
    ELSE [rules |-> default_rules, fs |-> fs, exc |-> "JSONDecodeError"]

-----------------------------------------------------------------------------
(* Values of the latest row and of rule expressions *)

Num(n) == [t |-> "num", n |-> n]

NaN == [t |-> "nan", n |-> 0]

Bool(b) == [t |-> "bool", n |-> IF b THEN 1 ELSE 0]

None == [t |-> "none", n |-> 0]

\* bool(v): nan is not zero, so it is true
Truthy(v) ==
    CASE v.t = "num" -> v.n # 0
      [] v.t = "bool" -> v.n = 1
      [] v.t = "nan" -> TRUE
      [] OTHER -> FALSE

IsNumber(v) == v.t \in {"num", "bool", "nan"}

CmpOps == {"<", ">", "<=", ">=", "==", "!="}

ArithOps == {"+", "-", "*"}

\* a comparison of two values: every comparison with nan is False, except != which is True
Compare(op, a, b) ==
    IF ~IsNumber(a) \/ ~IsNumber(b)
    THEN (IF op = "==" THEN [exc |-> "", v |-> Bool(a = b)]
          ELSE IF op = "!=" THEN [exc |-> "", v |-> Bool(a # b)]
          ELSE [exc |-> "TypeError", v |-> None])
    ELSE IF a.t = "nan" \/ b.t = "nan"
    THEN [exc |-> "", v |-> Bool(op = "!=")]
    ELSE [exc |-> "",
          v |-> Bool(CASE op = "<" -> a.n < b.n
                       [] op = ">" -> a.n > b.n
                       [] op = "<=" -> a.n <= b.n
                       [] op = ">=" -> a.n >= b.n
                       [] op = "==" -> a.n = b.n
                       [] OTHER -> a.n # b.n)]

\* + - * of two values: nan in, nan out
Arith(op, a, b) ==
    IF ~IsNumber(a) \/ ~IsNumber(b) THEN [exc |-> "TypeError", v |-> None]
    ELSE IF a.t = "nan" \/ b.t = "nan" THEN [exc |-> "", v |-> NaN]
    ELSE [exc |-> "",
          v |-> Num(CASE op = "+" -> a.n + b.n
                      [] op = "-" -> a.n - b.n
                      [] OTHER -> a.n * b.n)]

-----------------------------------------------------------------------------
(* eval(text): the expression the text parses to, then its value *)

V(name) == [op |-> "var", name |-> name]

K(n) == [op |-> "num", n |-> n]

B(op, l, r) == [op |-> op, l |-> l, r |-> r]

\* the rule texts of the model and what Python parses each to
RuleTexts ==
    {"RSI < 30 and Price > MA50 and MACD > MACD_Signal",
     "RSI > 70 and Price < MA50 and MACD < MACD_Signal",
     "RSI < 30 and Price > MA50",
     "RSI > 70 or Price < MA200",
     "Price > MA200",
     "MA200 != 0",
     "Price - MA200 <= 0 or RSI == 30",
     "RSI * 2 + 10",
     "Volume > 1",
     "RSI < 30 and",
     "RSI.real < 30",
     "save_watchlist('wl_default.txt', []) or RSI > 70"}

Parse(text) ==
    CASE text = "RSI < 30 and Price > MA50 and MACD > MACD_Signal" ->
            B("and", B("and", B("<", V("RSI"), K(30)), B(">", V("Price"), V("MA50"))),
                     B(">", V("MACD"), V("MACD_Signal")))
      [] text = "RSI > 70 and Price < MA50 and MACD < MACD_Signal" ->
            B("and", B("and", B(">", V("RSI"), K(70)), B("<", V("Price"), V("MA50"))),
                     B("<", V("MACD"), V("MACD_Signal")))
      [] text = "RSI < 30 and Price > MA50" ->
            B("and", B("<", V("RSI"), K(30)), B(">", V("Price"), V("MA50")))
      [] text = "RSI > 70 or Price < MA200" ->
            B("or", B(">", V("RSI"), K(70)), B("<", V("Price"), V("MA200")))
      [] text = "Price > MA200" -> B(">", V("Price"), V("MA200"))
      [] text = "MA200 != 0" -> B("!=", V("MA200"), K(0))
      [] text = "Price - MA200 <= 0 or RSI == 30" ->
            B("or", B("<=", B("-", V("Price"), V("MA200")), K(0)),
                    B("==", V("RSI"), K(30)))
      [] text = "RSI * 2 + 10" -> B("+", B("*", V("RSI"), K(2)), K(10))
      [] text = "Volume > 1" -> B(">", V("Volume"), K(1))
      [] text = "RSI.real < 30" ->
            B("<", [op |-> "attr", e |-> V("RSI"), name |-> "real"], K(30))
      [] text = "save_watchlist('wl_default.txt', []) or RSI > 70" ->
            B("or", [op |-> "save_watchlist", filename |-> "wl_default.txt", tks |-> <<>>],
                    B(">", V("RSI"), K(70)))
      [] OTHER -> [op |-> "SyntaxError"]

\* the names analyze_stock binds before it evaluates the rules
BoundNames == {"Price", "RSI", "MA50", "MA200", "EMA20", "MACD", "MACD_Signal"}

\* the value of expression e with the bindings env and the file system fs:
\* the exception raised (or ""), the value, and the file system afterwards
RECURSIVE EvalExpr(_, _, _)
EvalExpr(e, env, fs) ==
    CASE e.op = "SyntaxError" -> [exc |-> "SyntaxError", v |-> None, fs |-> fs]
      [] e.op = "num" -> [exc |-> "", v |-> Num(e.n), fs |-> fs]
      [] e.op = "var" ->
            IF e.name \in BoundNames
            THEN [exc |-> "", v |-> env[e.name], fs |-> fs]
            ELSE [exc |-> "NameError", v |-> None, fs |-> fs]
      [] e.op = "attr" ->
            LET x == EvalExpr(e.e, env, fs) IN
            IF x.exc # "" THEN x
            ELSE IF e.name = "real" /\ IsNumber(x.v) THEN x
            ELSE [exc |-> "AttributeError", v |-> None, fs |-> x.fs]
      [] e.op = "save_watchlist" ->
            [exc |-> "", v |-> None, fs |-> save_watchlist(fs, e.filename, e.tks)]
      [] e.op = "and" ->
            LET x == EvalExpr(e.l, env, fs) IN
            IF x.exc # "" \/ ~Truthy(x.v) THEN x ELSE EvalExpr(e.r, env, x.fs)
      [] e.op = "or" ->
            LET x == EvalExpr(e.l, env, fs) IN
            IF x.exc # "" \/ Truthy(x.v) THEN x ELSE EvalExpr(e.r, env, x.fs)
      [] OTHER ->
            LET x == EvalExpr(e.l, env, fs) IN
            IF x.exc # "" THEN x
            ELSE LET y == EvalExpr(e.r, env, x.fs) IN
                 IF y.exc # "" THEN y
                 ELSE LET z == IF e.op \in CmpOps THEN Compare(e.op, x.v, y.v)
                                ELSE Arith(e.op, x.v, y.v)
                      IN [exc |-> z.exc, v |-> z.v, fs |-> y.fs]

\* eval(text) in analyze_stock
Eval(text, env, fs) == EvalExpr(Parse(text), env, fs)

-----------------------------------------------------------------------------
(* STOCK ANALYSIS: streamlit_app.py *)

\* round(x, 2): a whole number and nan round to themselves
Round2(v) == v

\* RuleSignal with the two branches in the other order: SELL asked first
RuleSignalSellFirst(rules, env, fs) ==
    LET sell == Eval(rules.SELL, env, fs) IN
    IF sell.exc # "" THEN [signal |-> "Rule Error: " \o sell.exc, fs |-> sell.fs]
    ELSE IF Truthy(sell.v) THEN [signal |-> "SELL", fs |-> sell.fs]
    ELSE LET buy == Eval(rules.BUY, env, sell.fs) IN
         IF buy.exc # "" THEN [signal |-> "Rule Error: " \o buy.exc, fs |-> buy.fs]
         ELSE IF Truthy(buy.v) THEN [signal |-> "BUY", fs |-> buy.fs]
         ELSE [signal |-> "HOLD", fs |-> buy.fs]

\* lines 120-128: BUY is evaluated first, SELL only when BUY is false; an exception
\* of either eval becomes the signal. Returns the signal and the file system.
RuleSignal(rules, env, fs) ==
    LET buy == Eval(rules.BUY, env, fs) IN
    IF buy.exc # "" THEN [signal |-> "Rule Error: " \o buy.exc, fs |-> buy.fs]
    ELSE IF Truthy(buy.v) THEN [signal |-> "BUY", fs |-> buy.fs]
    ELSE LET sell == Eval(rules.SELL, env, buy.fs) IN
         IF sell.exc # "" THEN [signal |-> "Rule Error: " \o sell.exc, fs |-> sell.fs]
         ELSE IF Truthy(sell.v) THEN [signal |-> "SELL", fs |-> sell.fs]
         ELSE [signal |-> "HOLD", fs |-> sell.fs]

\* the bindings of lines 111-117 from the latest row
Bindings(latest) ==
    [Price |-> latest.Close, RSI |-> latest.RSI, MA50 |-> latest.MA50,
     MA200 |-> latest.MA200, EMA20 |-> latest.EMA20, MACD |-> latest.MACD,
     MACD_Signal |-> latest.MACD_Signal]

\* analyze_stock(ticker, rules) with df what yf.download gives: it raises, or it is
\* empty, or it has no Close column, or it has data whose latest row is df.latest.
\* res is <<>> for None and <<record>> for the dict; st are the st.warning / st.error
\* calls; fs is the file system afterwards.
analyze_stock(ticker, rules, df, fs) ==
    LET ticker_fixed == Upper(Strip(ReplaceDash(ticker))) IN
    IF df.kind = "empty"
    THEN [res |-> <<>>, st |-> <<[level |-> "warning", about |-> ticker_fixed]>>, fs |-> fs]
    ELSE IF df.kind \in {"raise", "noclose"}
    THEN [res |-> <<>>, st |-> <<[level |-> "error", about |-> ticker_fixed]>>, fs |-> fs]
    ELSE LET env == Bindings(df.latest)
             s == RuleSignal(rules, env, fs)
         IN [res |-> <<[Ticker |-> ticker,
                        Price |-> Round2(env.Price),
                        RSI |-> Round2(env.RSI),
                        MA50 |-> Round2(env.MA50),
                        MA200 |-> Round2(env.MA200),
                        EMA20 |-> Round2(env.EMA20),
                        MACD |-> Round2(env.MACD),
                        MACD_Signal |-> Round2(env.MACD_Signal),
                        Signal |-> s.signal,
                        Link |-> <<"https://finance.yahoo.com/quote/">> \o ticker_fixed]>>,
             st |-> <<>>,
             fs |-> s.fs]

-----------------------------------------------------------------------------
(* stock_agents.py: check_stock with the fixed rules *)

\* a and b / a or b of two comparison results
PyAnd(a, b) == IF Truthy(a) THEN b ELSE a

PyOr(a, b) == IF Truthy(a) THEN a ELSE b

\* lines 21-25
AgentsDecision(latest) ==
    IF Truthy(PyAnd(Compare("<", latest.RSI, Num(30)).v,
                    Compare(">", latest.Close, latest.MA50).v))
    THEN "BUY"
    ELSE IF Truthy(PyOr(Compare(">", latest.RSI, Num(70)).v,
                        Compare("<", latest.Close, latest.MA200).v))
    THEN "SELL"
    ELSE "HOLD"

\* the tool: the exception that escapes it (""  for none) and the text it returns,
\* as the parts the f-string puts together
agents_check_stock(ticker, df) ==
    IF df.kind = "raise" THEN [exc |-> "Exception", text |-> <<>>]
    ELSE IF df.kind = "empty" THEN [exc |-> "", text |-> <<ticker, "No data found.">>]
    ELSE IF df.kind = "noclose" THEN [exc |-> "KeyError", text |-> <<>>]
    ELSE [exc |-> "",
          text |-> <<ticker, AgentsDecision(df.latest), df.latest.RSI, df.latest.Close>>]

-----------------------------------------------------------------------------
(* stock_agent.py: check_stock and the batch loop *)

\* round(n / d, 2) in hundredths, for d > 0: to the nearest, a tie to the even one
RoundDiv(n, d) ==
    LET q == n \div d
        r == n % d
    IN IF 2 * r < d THEN q
       ELSE IF 2 * r > d THEN q + 1
       ELSE IF q % 2 = 0 THEN q ELSE q + 1

\* ((a - b) / c) * 100 rounded to 2 places, in hundredths of a percent
PercentReturn(a, b, c) ==
    IF a.t = "nan" \/ b.t = "nan" \/ c.t = "nan" THEN NaN
    ELSE Num(RoundDiv((a.n - b.n) * 10000, c.n))

\* the keys of the dict check_stock returns, in insertion order
ResultKeys == <<"Symbol", "Action", "Reason", "Potential Return (%)">>

\* lines 26-66: every failure inside is caught and reported as Action "Error";
\* an empty table fails at df.iloc[-1]
check_stock(ticker, df) ==
    IF df.kind # "data"
    THEN [Symbol |-> ticker, Action |-> "Error",
          Reason |-> IF df.kind = "empty" THEN "Error analyzing: IndexError"
                     ELSE IF df.kind = "noclose" THEN "Error analyzing: KeyError"
                     ELSE "Error analyzing: Exception",
          PotentialReturn |-> Num(0), keys |-> ResultKeys]
    ELSE LET l == df.latest IN
         IF Truthy(PyAnd(Compare("<", l.RSI, Num(30)).v, Compare(">", l.Close, l.MA50).v))
         THEN [Symbol |-> ticker, Action |-> "Buy",
               Reason |-> "RSI is low and price is above MA50",
               PotentialReturn |-> PercentReturn(l.MA200, l.Close, l.Close), keys |-> ResultKeys]
         ELSE IF Truthy(PyAnd(Compare(">", l.RSI, Num(70)).v,
                              Compare("<", l.Close, l.MA50).v))
         THEN [Symbol |-> ticker, Action |-> "Sell",
               Reason |-> "RSI is high and price fell below MA50",
               PotentialReturn |-> PercentReturn(l.Close, l.MA200, l.Close),
               keys |-> ResultKeys]
         ELSE [Symbol |-> ticker, Action |-> "Hold", Reason |-> "No clear signal.",
               PotentialReturn |-> Num(0), keys |-> ResultKeys]

-----------------------------------------------------------------------------
(* Inputs *)

MaxRuns == 4

MaxMembers == 2

MaxTickers == 2

AAPL == <<"A", "A", "P", "L">>

MSFT == <<"M", "S", "F", "T">>

GOOGL == <<"G", "O", "O", "G", "L">>

\* what yf.download and the indicator library can give as the latest row
Latests ==
    [Close : {Num(25), Num(32)},
     RSI : {Num(25), Num(30), Num(75), NaN},
     MA50 : {Num(30)},
     MA200 : {Num(28), NaN},
     EMA20 : {Num(30)},
     MACD : {Num(1)},
     MACD_Signal : {Num(0), Num(2)}]

NoRow == CHOOSE l \in Latests : TRUE

Dfs ==
    {[kind |-> k, latest |-> NoRow] : k \in {"raise", "empty", "noclose"}}
    \cup {[kind |-> "data", latest |-> l] : l \in Latests}

\* sequences over S of length at most n
SeqsUpTo(S, n) == UNION {[1..k -> S] : k \in 0..n}

\* the file system before the program first runs, and after its config section
NoFiles == [p \in Paths \cup {"stock_report.csv"} |-> Absent]

Seeded == SeedDefaults(NoFiles)

NoEvent == [kind |-> "none", arg |-> <<>>, n |-> 0]

NoCall == [fn |-> "idle"]

NoWrite == [pc |-> "idle", path |-> "", data |-> <<>>, old |-> Absent]

NoRead == [fn |-> "none"]

-----------------------------------------------------------------------------
(* STREAMLIT UI: one script run per widget event *)

\* lines 202-207: the loop over the tickers, dl[ticker] being what yf.download gives.
\* Returns results, the file system, and the exception that ends the run ("" for none).
RECURSIVE AnalyzeLoop(_, _, _, _)
AnalyzeLoop(lst, dl, fs, res) ==
    IF lst = <<>> THEN [results |-> res, fs |-> fs, exc |-> ""]
    ELSE LET lr == load_rules(fs) IN
         IF lr.exc # "" THEN [results |-> res, fs |-> lr.fs, exc |-> lr.exc]
         ELSE LET a == analyze_stock(Head(lst), lr.rules, dl[Head(lst)], lr.fs)
              IN AnalyzeLoop(Tail(lst), dl, a.fs, res \o a.res)

\* AddSymbolHandler looking for the text as typed, not uppercased
AddSymbolHandlerAsTyped(fs, sel, syms, new_symbol) ==
    IF new_symbol # <<>> /\ new_symbol \notin ToSet(syms)
    THEN save_watchlist(fs, sel \o ".txt", Append(syms, Upper(new_symbol)))
    ELSE fs

\* lines 166-170
AddSymbolHandler(fs, sel, syms, new_symbol) ==
    IF new_symbol # <<>> /\ Upper(new_symbol) \notin ToSet(syms)
    THEN save_watchlist(fs, sel \o ".txt", Append(syms, Upper(new_symbol)))
    ELSE fs

\* lines 172-176: the selectbox offers "" and the loaded symbols
RemoveOptions(syms) == {<<>>} \cup ToSet(syms)

RemoveSymbolHandler(fs, sel, syms, remove_symbol) ==
    IF remove_symbol # <<>>
    THEN save_watchlist(fs, sel \o ".txt", ListRemove(syms, remove_symbol))
    ELSE fs

\* lines 184-188
SaveRulesHandler(fs, buy_rule, sell_rule) ==
    save_rules(fs, [BUY |-> buy_rule, SELL |-> sell_rule])

\* line 202: the list the Analyze Watchlist loop iterates
BatchList(fs, sel) == load_watchlist(fs, sel)

\* line 161: the list the sidebar shows
SidebarList(fs, sel) == load_watchlist(fs, sel \o ".txt")

\* the rule texts the editor of the model is given
EditedRules == {"RSI < 30 and Price > MA50", "RSI > 70 or Price < MA200"}

\* the texts typed into Add Symbol
NewSymbols == {<<>>, <<"a", "a", "p", "l">>, <<"b">>}

UiInit ==
    /\ files = load_rules(Seeded).fs
    /\ selected_watchlist = WATCHLIST_CHOICES[1]
    /\ symbols = SidebarList(Seeded, WATCHLIST_CHOICES[1])
    /\ event = NoEvent
    /\ batch = <<>>
    /\ analyzed_data = <<>>
    /\ call = NoCall /\ ret = <<>>
    /\ tickers = <<>> /\ idx = 0 /\ pc = "none" /\ results = <<>>
    /\ messages_to_send = <<>>
    /\ wr = NoWrite /\ rd = NoRead

UiFrame == UNCHANGED <<call, ret, tickers, idx, pc, results, messages_to_send, wr, rd>>

\* the selectbox changes: the script runs with no button pressed
SelectWatchlist ==
    \E i \in 1..Len(WATCHLIST_CHOICES) :
        LET sel == WATCHLIST_CHOICES[i]
            fs1 == SeedDefaults(files)
        IN /\ event.n < MaxRuns
           /\ sel # selected_watchlist
           /\ selected_watchlist' = sel
           /\ symbols' = SidebarList(fs1, sel)
           /\ files' = load_rules(fs1).fs
           /\ event' = [kind |-> "select", arg |-> <<>>, n |-> event.n + 1]
           /\ UNCHANGED <<batch, analyzed_data>>
           /\ UiFrame

\* the Add Symbol button
AddSymbol ==
    \E new_symbol \in NewSymbols :
        LET fs1 == SeedDefaults(files)
            syms == SidebarList(fs1, selected_watchlist)
            fs2 == AddSymbolHandler(fs1, selected_watchlist, syms, new_symbol)
        IN /\ event.n < MaxRuns
           /\ symbols' = syms
           /\ files' = load_rules(fs2).fs
           /\ event' = [kind |-> "add", arg |-> new_symbol, n |-> event.n + 1]
           /\ UNCHANGED <<selected_watchlist, batch, analyzed_data>>
           /\ UiFrame

\* the Remove Symbol button
RemoveSymbol ==
    LET fs1 == SeedDefaults(files)
        syms == SidebarList(fs1, selected_watchlist)
    IN \E remove_symbol \in RemoveOptions(syms) :
        /\ event.n < MaxRuns
        /\ symbols' = syms
        /\ files' = load_rules(
                RemoveSymbolHandler(fs1, selected_watchlist, syms, remove_symbol)).fs
        /\ event' = [kind |-> "remove", arg |-> remove_symbol, n |-> event.n + 1]
        /\ UNCHANGED <<selected_watchlist, batch, analyzed_data>>
        /\ UiFrame

\* the Save Rules button
SaveRules ==
    \E buy_rule \in EditedRules, sell_rule \in EditedRules :
        LET fs1 == SeedDefaults(files) IN
        /\ event.n < MaxRuns
        /\ symbols' = SidebarList(fs1, selected_watchlist)
        /\ files' = SaveRulesHandler(load_rules(fs1).fs, buy_rule, sell_rule)
        /\ event' = [kind |-> "save_rules", arg |-> <<buy_rule, sell_rule>>, n |-> event.n + 1]
        /\ UNCHANGED <<selected_watchlist, batch, analyzed_data>>
        /\ UiFrame

\* the Analyze Watchlist button
AnalyzeWatchlist ==
    LET fs1 == load_rules(SeedDefaults(files)).fs
        lst == BatchList(fs1, selected_watchlist)
    IN \E dl \in [ToSet(lst) -> Dfs] :
        LET out == AnalyzeLoop(lst, dl, fs1, <<>>) IN
        /\ event.n < MaxRuns
        /\ symbols' = SidebarList(fs1, selected_watchlist)
        /\ batch' = lst
        /\ files' = out.fs
        /\ analyzed_data' = (IF out.exc = "" THEN out.results ELSE <<>>)
        /\ event' = [kind |-> "analyze", arg |-> <<>>, n |-> event.n + 1]
        /\ UNCHANGED selected_watchlist
        /\ UiFrame

UiNext == SelectWatchlist \/ AddSymbol \/ RemoveSymbol \/ SaveRules \/ AnalyzeWatchlist

Spec == UiInit /\ [][UiNext]_vars

-----------------------------------------------------------------------------
(* Direct calls of the analysis functions *)

\* the tickers handed to the functions: one as a watchlist gives it, one as typed
EvalTickers == {AAPL, <<" ", "b", "-", "b">>}

EvalInit ==
    /\ files = load_rules(Seeded).fs
    /\ call = NoCall /\ ret = <<>>
    /\ selected_watchlist = WATCHLIST_CHOICES[1] /\ symbols = <<>> /\ event = NoEvent
    /\ batch = <<>> /\ analyzed_data = <<>>
    /\ tickers = <<>> /\ idx = 0 /\ pc = "none" /\ results = <<>>
    /\ messages_to_send = <<>>
    /\ wr = NoWrite /\ rd = NoRead

CallFrame ==
    UNCHANGED <<selected_watchlist, symbols, event, batch, analyzed_data,
                tickers, idx, pc, results, messages_to_send, wr, rd>>

\* streamlit_app.py: analyze_stock(ticker, rules)
CallAnalyzeStock ==
    \E ticker \in EvalTickers, buy \in RuleTexts, sell \in RuleTexts, df \in Dfs :
        LET rules == [BUY |-> buy, SELL |-> sell]
            a == analyze_stock(ticker, rules, df, files)
        IN /\ call.fn = "idle"
           /\ call' = [fn |-> "analyze_stock", ticker |-> ticker, rules |-> rules,
                       df |-> df, before |-> files]
           /\ ret' = [res |-> a.res, st |-> a.st]
           /\ files' = a.fs
           /\ CallFrame

\* stock_agents.py: check_stock(ticker)
CallAgentsCheckStock ==
    \E ticker \in EvalTickers, df \in Dfs :
        /\ call.fn = "idle"
        /\ call' = [fn |-> "agents_check_stock", ticker |-> ticker, df |-> df,
                    before |-> files]
        /\ ret' = agents_check_stock(ticker, df)
        /\ UNCHANGED files
        /\ CallFrame

\* stock_agent.py: check_stock(ticker)
CallCheckStock ==
    \E ticker \in EvalTickers, df \in Dfs :
        /\ call.fn = "idle"
        /\ call' = [fn |-> "check_stock", ticker |-> ticker, df |-> df, before |-> files]
        /\ ret' = check_stock(ticker, df)
        /\ UNCHANGED files
        /\ CallFrame

\* the caller takes the result
CallReturn ==
    /\ call.fn # "idle"
    /\ call' = NoCall
    /\ ret' = <<>>
    /\ UNCHANGED files
    /\ CallFrame

EvalNext == CallAnalyzeStock \/ CallAgentsCheckStock \/ CallCheckStock \/ CallReturn

SpecEval == EvalInit /\ [][EvalNext]_vars

-----------------------------------------------------------------------------
(* stock_agent.py: the script *)

\* text, data = <dict>: unpacking iterates the keys and needs exactly two of them
UnpackPair(d) ==
    IF Len(d.keys) = 2
    THEN [exc |-> "", text |-> d.keys[1], data |-> d.keys[2]]
    ELSE [exc |-> "ValueError", text |-> "", data |-> ""]

\* the lines of stocks.txt
TickerLists == SeqsUpTo({AAPL, MSFT}, MaxTickers)

BatchInit ==
    /\ tickers \in TickerLists
    /\ idx = 1 /\ pc = "loop" /\ results = <<>> /\ messages_to_send = <<>>
    /\ ret = <<>>
    /\ files = NoFiles
    /\ call = NoCall
    /\ selected_watchlist = WATCHLIST_CHOICES[1] /\ symbols = <<>> /\ event = NoEvent
    /\ batch = <<>> /\ analyzed_data = <<>>
    /\ wr = NoWrite /\ rd = NoRead

BatchFrame ==
    UNCHANGED <<selected_watchlist, symbols, event, batch, analyzed_data, wr, rd>>

\* lines 72-78: one pass of the loop. data is a key of the dict (a str) when the
\* unpacking works, so data["Decision"] raises TypeError.
BatchIter ==
    \E df \in Dfs :
        LET d == check_stock(tickers[idx], df)
            u == UnpackPair(d)
        IN /\ pc = "loop" /\ idx <= Len(tickers)
           /\ call' = [fn |-> "check_stock", ticker |-> tickers[idx], df |-> df]
           /\ ret' = d
           /\ IF u.exc # ""
              THEN /\ pc' = "crashed"
                   /\ UNCHANGED <<idx, results, messages_to_send>>
              ELSE /\ results' = (IF u.data # "" THEN Append(results, u.data) ELSE results)
                   /\ pc' = (IF u.data # "" THEN "crashed" ELSE "loop")
                   /\ idx' = idx + 1
                   /\ UNCHANGED messages_to_send
           /\ UNCHANGED <<files, tickers>>
           /\ BatchFrame

\* lines 81-82: the report is written once the loop is over
BatchSaveCsv ==
    /\ pc = "loop" /\ idx > Len(tickers)
    /\ files' = [files EXCEPT !["stock_report.csv"] = File(results)]
    /\ pc' = "notify"
    /\ UNCHANGED <<tickers, idx, results, messages_to_send, call, ret>>
    /\ BatchFrame

\* lines 85-110: the e-mail goes out when there are messages and the settings are there
BatchNotify ==
    \E settings \in BOOLEAN :
        /\ pc = "notify"
        /\ pc' = (IF messages_to_send # <<>> /\ settings THEN "emailed" ELSE "done")
        /\ UNCHANGED <<files, tickers, idx, results, messages_to_send, call, ret>>
        /\ BatchFrame

BatchNext == BatchIter \/ BatchSaveCsv \/ BatchNotify

SpecBatch == BatchInit /\ [][BatchNext]_vars

-----------------------------------------------------------------------------
(* Direct calls of the watchlist store *)

\* the file names given to the store: a list of DEFAULT_LISTS, and a choice as is
StoreNames == {DEFAULT_LISTS[1], WATCHLIST_CHOICES[1]}

Idents == {<<"a">>, <<"A">>, <<"b">>, <<"B">>}

MemberLists == SeqsUpTo(Idents, MaxMembers)

StoreCall(fn, name, members, before, loaded) ==
    [fn |-> fn, name |-> name, members |-> members, before |-> before, loaded |-> loaded]

StoreInit ==
    /\ files = load_rules(Seeded).fs
    /\ call = StoreCall("idle", "", <<>>, files, <<>>) /\ ret = <<>>
    /\ selected_watchlist = WATCHLIST_CHOICES[1] /\ symbols = <<>> /\ event = NoEvent
    /\ batch = <<>> /\ analyzed_data = <<>>
    /\ tickers = <<>> /\ idx = 0 /\ pc = "none" /\ results = <<>>
    /\ messages_to_send = <<>>
    /\ wr = NoWrite /\ rd = NoRead

\* save_watchlist(name, members)
StoreSave ==
    \E name \in StoreNames, members \in MemberLists :
        /\ call.fn = "idle"
        /\ files' = save_watchlist(files, name, members)
        /\ call' = StoreCall("save", name, members, files, <<>>)
        /\ ret' = <<>>
        /\ CallFrame

\* then load_watchlist(name)
StoreLoad ==
    LET l == load_watchlist(files, call.name) IN
    /\ call.fn = "save"
    /\ ret' = l
    /\ call' = StoreCall("save_load", call.name, call.members, files, l)
    /\ UNCHANGED files
    /\ CallFrame

\* then save_watchlist(name, <what was loaded>)
StoreResave ==
    /\ call.fn = "save_load"
    /\ files' = save_watchlist(files, call.name, ret)
    /\ call' = StoreCall("save_load_save", call.name, call.members, files, call.loaded)
    /\ UNCHANGED ret
    /\ CallFrame

\* then load_watchlist(name) once more
StoreReload ==
    /\ call.fn = "save_load_save"
    /\ ret' = load_watchlist(files, call.name)
    /\ call' = StoreCall("save_load_save_load", call.name, call.members, files, call.loaded)
    /\ UNCHANGED files
    /\ CallFrame

\* load_watchlist(name) of a name nothing was saved under in this sequence of calls
StoreLoadOnly ==
    \E name \in StoreNames :
        LET l == load_watchlist(files, name) IN
        /\ call.fn = "idle"
        /\ ret' = l
        /\ call' = StoreCall("load", name, <<>>, files, l)
        /\ UNCHANGED files
        /\ CallFrame

\* and the same load again
StoreLoadAgain ==
    /\ call.fn = "load"
    /\ ret' = load_watchlist(files, call.name)
    /\ call' = StoreCall("load_load", call.name, <<>>, files, call.loaded)
    /\ UNCHANGED files
    /\ CallFrame

StoreReturn ==
    /\ call.fn \notin {"idle", "save", "save_load", "save_load_save", "load"}
    /\ call' = StoreCall("idle", "", <<>>, files, <<>>)
    /\ ret' = <<>>
    /\ UNCHANGED files
    /\ CallFrame

StoreNext ==
    \/ StoreSave \/ StoreLoad \/ StoreResave \/ StoreReload
    \/ StoreLoadOnly \/ StoreLoadAgain \/ StoreReturn

SpecStore == StoreInit /\ [][StoreNext]_vars

-----------------------------------------------------------------------------
(* Two sessions: one saves, the other loads *)

\* the lists and the rules the saving session writes
ConcLists == SeqsUpTo({AAPL, MSFT}, MaxMembers) \ {<<>>}

ConcRules == [BUY : EditedRules, SELL : EditedRules]

ConcInit ==
    /\ files = load_rules(Seeded).fs
    /\ wr = NoWrite /\ rd = NoRead
    /\ call = NoCall /\ ret = <<>>
    /\ selected_watchlist = WATCHLIST_CHOICES[1] /\ symbols = <<>> /\ event = NoEvent
    /\ batch = <<>> /\ analyzed_data = <<>>
    /\ tickers = <<>> /\ idx = 0 /\ pc = "none" /\ results = <<>>
    /\ messages_to_send = <<>>

ConcFrame ==
    UNCHANGED <<selected_watchlist, symbols, event, batch, analyzed_data, call, ret,
                tickers, idx, pc, results, messages_to_send>>

\* open(path, "w"): the file is cut to nothing; what f.write is given stays in the
\* buffer of f until the with block closes it
OpenForWrite(path, data) ==
    /\ wr.pc = "idle"
    /\ wr' = [pc |-> "open", path |-> path, data |-> data, old |-> files[path]]
    /\ files' = [files EXCEPT ![path] = File(<<>>)]
    /\ UNCHANGED rd
    /\ ConcFrame

\* save_watchlist, line 89
WriteOpenWatchlist ==
    \E tks \in ConcLists :
        LET path == PathJoin(WATCHLIST_DIR, DEFAULT_LISTS[1]) IN
        OpenForWrite(path, save_watchlist(files, DEFAULT_LISTS[1], tks)[path].data)

\* save_rules, line 75
WriteOpenRules ==
    \E rules \in ConcRules :
        OpenForWrite(RULES_FILE, save_rules(files, rules)[RULES_FILE].data)

\* the with block ends: the buffer reaches the file
WriteClose ==
    /\ wr.pc = "open"
    /\ files' = [files EXCEPT ![wr.path] = File(wr.data)]
    /\ wr' = NoWrite
    /\ UNCHANGED rd
    /\ ConcFrame

\* the other session runs load_watchlist
ReadWatchlist ==
    /\ rd' = [fn |-> "load_watchlist", path |-> PathJoin(WATCHLIST_DIR, DEFAULT_LISTS[1]),
              out |-> load_watchlist(files, DEFAULT_LISTS[1]), exc |-> "", wr |-> wr]
    /\ UNCHANGED <<files, wr>>
    /\ ConcFrame

\* the other session runs load_rules
ReadRules ==
    LET lr == load_rules(files) IN
    /\ rd' = [fn |-> "load_rules", path |-> RULES_FILE, out |-> lr.rules,
              exc |-> lr.exc, wr |-> wr]
    /\ files' = lr.fs
    /\ UNCHANGED wr
    /\ ConcFrame

ConcNext ==
    WriteOpenWatchlist \/ WriteOpenRules \/ WriteClose \/ ReadWatchlist \/ ReadRules

SpecConc == ConcInit /\ [][ConcNext]_vars

-----------------------------------------------------------------------------
(* Properties *)

Signals == {"BUY", "SELL", "HOLD"}

\* the names an expression mentions
RECURSIVE Names(_)
Names(e) ==
    CASE e.op = "var" -> {e.name}
      [] e.op = "attr" -> Names(e.e)
      [] e.op \in {"num", "SyntaxError", "save_watchlist"} -> {}
      [] OTHER -> Names(e.l) \cup Names(e.r)

\* e is of the rule language: comparisons, and / or, arithmetic, over the bound
\* names and numbers
RECURSIVE InLanguage(_)
InLanguage(e) ==
    CASE e.op = "num" -> TRUE
      [] e.op = "var" -> e.name \in BoundNames
      [] e.op \in CmpOps \cup ArithOps \cup {"and", "or"} -> InLanguage(e.l) /\ InLanguage(e.r)
      [] OTHER -> FALSE

\* a < b and a > b of two defined numbers
DefLess(a, b) == a.t = "num" /\ b.t = "num" /\ a.n < b.n

DefGreater(a, b) == DefLess(b, a)

AnalyzedData == call.fn = "analyze_stock" /\ call.df.kind = "data"

\* C1: when both rule expressions evaluate without failure, the decision is BUY when
\* the BUY predicate is true whatever SELL is, SELL when BUY is false and SELL is true,
\* HOLD when both are false; for analyze_stock and for the fixed rules of the agent tool.
C1_BuyBeforeSell ==
    /\ AnalyzedData =>
          LET env == Bindings(call.df.latest)
              b == Eval(call.rules.BUY, env, call.before)
              s == Eval(call.rules.SELL, env, b.fs)
          IN (b.exc = "" /\ s.exc = "") =>
                /\ ret.res # <<>>
                /\ ret.res[1].Signal =
                      (IF Truthy(b.v) THEN "BUY" ELSE IF Truthy(s.v) THEN "SELL" ELSE "HOLD")
    /\ (call.fn = "agents_check_stock" /\ call.df.kind = "data") =>
          LET l == call.df.latest
              buy == DefLess(l.RSI, Num(30)) /\ DefGreater(l.Close, l.MA50)
              sell == DefGreater(l.RSI, Num(70)) \/ DefLess(l.Close, l.MA200)
          IN ret.text[2] = (IF buy THEN "BUY" ELSE IF sell THEN "SELL" ELSE "HOLD")

\* C1 witness: analyze_stock has returned BUY with both predicates true
C1_BothTrue ==
    /\ AnalyzedData
    /\ LET env == Bindings(call.df.latest)
           b == Eval(call.rules.BUY, env, call.before)
           s == Eval(call.rules.SELL, env, b.fs)
       IN /\ b.exc = "" /\ s.exc = "" /\ Truthy(b.v) /\ Truthy(s.v)
          /\ call.rules.BUY # call.rules.SELL
          /\ ret.res[1].Signal = "BUY"

\* C2: a failure on one instrument (no rows, or an exception while it is processed)
\* never aborts the batch: the script goes on after it, and once the loop is over
\* every ticker has its record in results.
C2_BatchNeverAborts ==
    /\ (call.fn = "check_stock" /\ call.df.kind # "data") => pc # "crashed"
    /\ pc \in {"notify", "done", "emailed"} => Len(results) = Len(tickers)

\* C3: a rule set with a malformed or disallowed expression gives a record whose
\* decision is the error, and the evaluation changes no file.
C3_DisallowedRuleIsError ==
    (/\ AnalyzedData
     /\ \/ ~InLanguage(Parse(call.rules.BUY))
        \/ ~InLanguage(Parse(call.rules.SELL)))
    => /\ ret.res # <<>>
       /\ ret.res[1].Signal \notin Signals
       /\ files = call.before

\* s is in ascending order with no repeats
Ascending(s) == \A i \in 1..Len(s) : \A j \in 1..Len(s) : i < j => StrLess(s[i], s[j])

\* C4: save then load gives the uppercased members, no repeats, ascending; saving
\* what was loaded leaves the file as it is, and so the next load.
C4_RoundTrip ==
    /\ call.fn = "save_load" =>
          /\ ToSet(ret) = {Upper(call.members[i]) : i \in 1..Len(call.members)}
          /\ Ascending(ret)
    /\ call.fn = "save_load_save" => files = call.before
    /\ call.fn = "save_load_save_load" => ret = call.loaded

\* C5: a predicate of the rule language that mentions an indicator undefined at the
\* latest point is false and raises nothing: the decision is not the one it guards.
C5_UndefinedIsFalse ==
    (/\ AnalyzedData
     /\ InLanguage(Parse(call.rules.BUY))
     /\ InLanguage(Parse(call.rules.SELL)))
    => LET env == Bindings(call.df.latest)
           undef(text) == \E n \in Names(Parse(text)) : env[n].t = "nan"
       IN /\ ret.res # <<>>
          /\ ret.res[1].Signal \in Signals
          /\ undef(call.rules.BUY) => ret.res[1].Signal # "BUY"
          /\ undef(call.rules.SELL) => ret.res[1].Signal # "SELL"

\* C6: an empty price table gives a decision record whose decision is "no data".
C6_EmptyIsNoData ==
    /\ (call.fn = "analyze_stock" /\ call.df.kind = "empty") =>
          /\ ret.res # <<>>
          /\ ret.res[1].Signal = "no data"
    /\ (call.fn = "check_stock" /\ call.df.kind = "empty") => ret.Action = "no data"

\* C7: loading a name that has no file returns the seed members and creates the file;
\* the same load again returns the same and changes nothing.
C7_LoadSeedsAbsent ==
    /\ (/\ call.fn = "load"
        /\ ~call.before[PathJoin(WATCHLIST_DIR, call.name)].exists)
       => /\ ToSet(ret) = {AAPL, MSFT, GOOGL}
          /\ files[PathJoin(WATCHLIST_DIR, call.name)].exists
    /\ call.fn = "load_load" => (ret = call.loaded /\ files = call.before)

\* C8: Add Symbol with a text whose uppercase is already listed, and Remove Symbol
\* with a choice that is not listed, leave every file as it was.
C8_NoOpAddRemove ==
    [][(\/ /\ event'.kind = "add"
           /\ Upper(event'.arg) \in ToSet(symbols')
        \/ /\ event'.kind = "remove"
           /\ event'.arg \notin ToSet(symbols'))
       => files' = files]_vars

\* C8 witness: "aapl" was added to a list that holds AAPL
C8_DuplicateAdded ==
    /\ event.kind = "add"
    /\ event.arg = <<"a", "a", "p", "l">>
    /\ AAPL \in ToSet(symbols)

\* C9: a load that runs while a save of the same file is open returns without failing
\* what the file held before the save, or what the save writes.
C9_NoPartialRead ==
    (rd.fn # "none" /\ rd.wr.pc = "open" /\ rd.wr.path = rd.path)
    => /\ rd.exc = ""
       /\ IF rd.fn = "load_watchlist"
          THEN rd.out \in {ReadLines(Lines(rd.wr.old.data, <<>>)),
                           ReadLines(Lines(rd.wr.data, <<>>))}
          ELSE rd.out \in {JsonLoad(rd.wr.old.data), JsonLoad(rd.wr.data)}

\* C10: the Analyze Watchlist loop goes over the list the sidebar loaded for the
\* selection, and over something whenever that list has members.
C10_BatchIsWatchlist ==
    event.kind = "analyze" => (batch = symbols /\ (symbols # <<>> => batch # <<>>))

====
